---- MODULE Spec2Model ----
(***************************************************************************)
(* Model of beast/asio/type_check.h: the compile-time structural checks    *)
(* is_BufferSequence, has_get_io_service, is_AsyncReadStream,              *)
(* is_AsyncWriteStream, is_SyncReadStream, is_SyncWriteStream, is_Stream,  *)
(* is_Streambuf and is_Handler.                                            *)
(*                                                                         *)
(* A candidate type is a record of its members: for every name a check     *)
(* probes, either "none" (the member does not exist, or the probed call is *)
(* ill-formed) or the type the probed expression has.  The outcome of      *)
(* instantiating a check is "true", "false", or "error" when reading       *)
(* ::value is itself ill-formed (a hard build failure).                    *)
(***************************************************************************)
EXTENDS Naturals, FiniteSets, Sequences, TLC

VARIABLES T, extra, value, edits

vars == <<T, extra, value, edits>>

\* Number of successive changes made to a declared type.
MaxEdits == 2

----------------------------------------------------------------------------
\* Member names probed by the checks, with the kinds each can take.

NestedTypes == {"value_type", "const_iterator"}

Operations ==
    {"copy_ctor", "dtor", "begin", "end", "get_io_service",
     "async_read_some", "async_write_some",
     "read_some1", "read_some2", "write_some1", "write_some2",
     "prepare", "data", "commit", "consume", "size", "call"}

Members == NestedTypes \cup Operations

\* Names that no check probes.
Unrelated == {"close", "native_handle"}

RefKinds == {"none", "&", "&&"}

Kinds(m) ==
    CASE m \in {"copy_ctor", "dtor"} -> {"declared"}
      [] m = "value_type" -> {"const_buffer", "mutable_buffer", "int"}
      [] m = "const_iterator" ->
            {"input", "output", "forward", "bidirectional", "random_access"}
      [] m \in {"begin", "end"} ->
            {"const_iterator", "iterator", "int", "void"}
      [] m = "get_io_service" ->
            {"io_service&", "io_service", "io_service const&", "derived&"}
      [] m \in {"async_read_some", "async_write_some"} ->
            {"void", "int", "comma_int", "comma_false"}
      [] m \in {"read_some1", "read_some2", "write_some1", "write_some2"} ->
            {"size_t", "int", "string"}
      [] m \in {"prepare", "data"} ->
            {"MutableBufferSequence", "ConstBufferSequence", "int", "void"}
      [] m \in {"commit", "consume"} -> {"void", "int", "comma_deleted"}
      [] m = "size" -> {"size_t", "int", "void"}
      [] m = "call" -> {"void", "int"}

\* A class with no members at all and neither copy constructor nor destructor.
Empty == [m \in Members \cup {"ref"} |-> "none"]

With(t, ms) ==
    [m \in DOMAIN t |-> IF m \in DOMAIN ms THEN ms[m] ELSE t[m]]

Special == [copy_ctor |-> "declared", dtor |-> "declared"]

\* int: copy-constructible and destructible, no nested types, no members.
IntType == With(Empty, Special)

\* concept::BufferSequence<BufferType>
BufferSequence(BufferType) ==
    With(Empty, [copy_ctor |-> "declared", dtor |-> "declared",
                 value_type |-> BufferType, const_iterator |-> "random_access",
                 begin |-> "const_iterator", end |-> "const_iterator"])

ConstBufferSequence == BufferSequence("const_buffer")

MutableBufferSequence == BufferSequence("mutable_buffer")

\* concept::StreamHandler
StreamHandler == With(Empty, [copy_ctor |-> "declared", dtor |-> "declared",
                              call |-> "void"])

\* A socket-like type with every stream operation.
StreamModel ==
    With(Empty, [copy_ctor |-> "declared", dtor |-> "declared",
                 get_io_service |-> "io_service&",
                 async_read_some |-> "void", async_write_some |-> "void",
                 read_some1 |-> "size_t", read_some2 |-> "size_t",
                 write_some1 |-> "size_t", write_some2 |-> "size_t"])

\* A streambuf-like type with every growable-buffer operation.
StreambufModel ==
    With(Empty, [copy_ctor |-> "declared", dtor |-> "declared",
                 prepare |-> "MutableBufferSequence",
                 data |-> "ConstBufferSequence",
                 commit |-> "void", consume |-> "void", size |-> "size_t"])

\* The type a probed expression yields, as a candidate of its own.
TypeNamed(r) ==
    CASE r = "MutableBufferSequence" -> MutableBufferSequence
      [] r = "ConstBufferSequence" -> ConstBufferSequence
      [] r = "int" -> IntType
      [] OTHER -> Empty

----------------------------------------------------------------------------
\* The language rules the checks rest on.

\* typename U::n : ill-formed when U is a reference type.
Nested(t, n) == IF t.ref # "none" THEN "none" ELSE t[n]

\* decltype(std::declval<U>().op(...)) : "none" when the call is ill-formed.
Call(t, op) == t[op]

is_same(a, b) == a = b

is_convertible(from, to) ==
    \/ from = to
    \/ <<from, to>> \in {<<"mutable_buffer", "const_buffer">>,
                         <<"iterator", "const_iterator">>}

\* std::is_base_of<std::forward_iterator_tag, category>
is_base_of_forward(category) ==
    category \in {"forward", "bidirectional", "random_access"}

is_copy_constructible(t) ==
    CASE t.ref = "&" -> TRUE
      [] t.ref = "&&" -> FALSE
      [] OTHER -> t.copy_ctor = "declared"

is_destructible(t) == t.ref # "none" \/ t.dtor = "declared"

decay_t(t) == [t EXCEPT !.ref = "none"]

BoolType(b) == IF b THEN "std::true_type" ELSE "std::false_type"

BoolValue(b) == IF b THEN "true" ELSE "false"

\* R::value
ValueOf(R) ==
    CASE R = "std::true_type" -> "true"
      [] R = "std::false_type" -> "false"
      [] OTHER -> "error"

\* a && b on two ::value constants: both operands are instantiated.
And(a, b) ==
    IF a = "error" \/ b = "error" THEN "error"
    ELSE IF a = "true" /\ b = "true" THEN "true" ELSE "false"

\* decltype(e, std::true_type{}) for e of type r: a class type that overloads
\* the comma operator selects the overload's result type.
CommaWellFormed(r) == r \notin {"none", "comma_deleted"}

CommaTrue(r) ==
    CASE r = "comma_int" -> "int"
      [] r = "comma_false" -> "std::false_type"
      [] OTHER -> "std::true_type"

Probe_NoFallback(wellformed, R) == IF wellformed THEN R ELSE "ill-formed"

\* decltype(check<T>(0)) with overloads check(int) -> R and check(...) ->
\* std::false_type: substitution failure in R removes the first overload.
Probe(wellformed, R) == IF wellformed THEN R ELSE "std::false_type"

----------------------------------------------------------------------------
\* The checks.

is_BufferSequence_Bidirectional(t, BufferType) ==
    LET type1 == Probe(Nested(t, "value_type") # "none",
                       BoolType(is_convertible(Nested(t, "value_type"),
                                               BufferType)))
        type2 == Probe(Nested(t, "const_iterator") # "none",
                       BoolType(Nested(t, "const_iterator")
                                    \in {"bidirectional", "random_access"}))
        type3 == Probe(Call(t, "begin") # "none"
                           /\ Nested(t, "const_iterator") # "none",
                       BoolType(is_convertible(Call(t, "begin"),
                                               "const_iterator")))
        type4 == Probe(Call(t, "end") # "none"
                           /\ Nested(t, "const_iterator") # "none",
                       BoolType(is_convertible(Call(t, "end"),
                                               "const_iterator")))
    IN  And(BoolValue(is_copy_constructible(t)),
        And(BoolValue(is_destructible(t)),
        And(ValueOf(type1), And(ValueOf(type2),
        And(ValueOf(type3), ValueOf(type4))))))

is_BufferSequence(t, BufferType) ==
    LET type1 == Probe(Nested(t, "value_type") # "none",
                       BoolType(is_convertible(Nested(t, "value_type"),
                                               BufferType)))
        type2 == Probe(Nested(t, "const_iterator") # "none",
                       BoolType(is_base_of_forward(
                                    Nested(t, "const_iterator"))))
        type3 == Probe(Call(t, "begin") # "none"
                           /\ Nested(t, "const_iterator") # "none",
                       BoolType(is_convertible(Call(t, "begin"),
                                               "const_iterator")))
        type4 == Probe(Call(t, "end") # "none"
                           /\ Nested(t, "const_iterator") # "none",
                       BoolType(is_convertible(Call(t, "end"),
                                               "const_iterator")))
    IN  And(BoolValue(is_copy_constructible(t)),
        And(BoolValue(is_destructible(t)),
        And(ValueOf(type1), And(ValueOf(type2),
        And(ValueOf(type3), ValueOf(type4))))))

is_ConstBufferSequence(t) == is_BufferSequence(t, "const_buffer")

is_MutableBufferSequence(t) == is_BufferSequence(t, "mutable_buffer")

has_get_io_service_Convertible(t) ==
    ValueOf(Probe(Call(t, "get_io_service") # "none",
                  BoolType(Call(t, "get_io_service")
                               \in {"io_service&", "derived&"})))

has_get_io_service(t) ==
    ValueOf(Probe(Call(t, "get_io_service") # "none",
                  BoolType(is_same(Call(t, "get_io_service"),
                                   "io_service&"))))

is_AsyncReadStream(t) ==
    LET type == Probe(CommaWellFormed(Call(t, "async_read_some")),
                      CommaTrue(Call(t, "async_read_some")))
    IN  And(has_get_io_service(t), ValueOf(type))

is_AsyncWriteStream(t) ==
    LET type == Probe(CommaWellFormed(Call(t, "async_write_some")),
                      CommaTrue(Call(t, "async_write_some")))
    IN  And(has_get_io_service(t), ValueOf(type))

is_SyncReadStream_Convertible(t) ==
    LET type1 == Probe(Call(t, "read_some1") # "none",
                       BoolType(Call(t, "read_some1") \in {"size_t", "int"}))
        type2 == Probe(Call(t, "read_some2") # "none",
                       BoolType(Call(t, "read_some2") \in {"size_t", "int"}))
    IN  And(ValueOf(type1), ValueOf(type2))

is_SyncReadStream(t) ==
    LET type1 == Probe(Call(t, "read_some1") # "none",
                       BoolType(is_same(Call(t, "read_some1"), "size_t")))
        type2 == Probe(Call(t, "read_some2") # "none",
                       BoolType(is_same(Call(t, "read_some2"), "size_t")))
    IN  And(ValueOf(type1), ValueOf(type2))

is_SyncWriteStream_OneOverload(t) ==
    ValueOf(Probe(Call(t, "write_some1") # "none",
                  BoolType(is_same(Call(t, "write_some1"), "size_t"))))

is_SyncWriteStream(t) ==
    LET type1 == Probe(Call(t, "write_some1") # "none",
                       BoolType(is_same(Call(t, "write_some1"), "size_t")))
        type2 == Probe(Call(t, "write_some2") # "none",
                       BoolType(is_same(Call(t, "write_some2"), "size_t")))
    IN  And(ValueOf(type1), ValueOf(type2))

is_Stream_NoSyncWrite(t) ==
    And(is_AsyncReadStream(t),
    And(is_AsyncWriteStream(t), is_SyncReadStream(t)))

is_Stream(t) ==
    And(is_AsyncReadStream(t),
    And(is_AsyncWriteStream(t),
    And(is_SyncReadStream(t), is_SyncWriteStream(t))))

\* The partial specialization is chosen when every argument of std::void_t
\* names a type; std::integral_constant<bool, v> and std::is_same<A, B>
\* name a type whatever v is and whether or not A and B are the same.
is_Streambuf(t) ==
    LET arg1 == Call(t, "prepare") # "none"
                /\ is_MutableBufferSequence(TypeNamed(Call(t, "prepare")))
                       # "error"
        arg2 == Call(t, "data") # "none"
                /\ is_ConstBufferSequence(TypeNamed(Call(t, "data")))
                       # "error"
        arg3 == CommaWellFormed(Call(t, "commit"))
        arg4 == CommaWellFormed(Call(t, "consume"))
        arg5 == Call(t, "size") # "none"
    IN  BoolValue(arg1 /\ arg2 /\ arg3 /\ arg4 /\ arg5)

\* beast::is_call_possible<T, Signature>
is_call_possible(t) == t.call # "none"

is_Handler_NoDecay(t) ==
    BoolValue(is_copy_constructible(t) /\ is_call_possible(t))

is_Handler(t) ==
    BoolValue(is_copy_constructible(decay_t(t)) /\ is_call_possible(t))

\* Every check instantiated on t.
Instantiate(t) ==
    [is_ConstBufferSequence |-> is_ConstBufferSequence(t),
     is_MutableBufferSequence |-> is_MutableBufferSequence(t),
     has_get_io_service |-> has_get_io_service(t),
     is_AsyncReadStream |-> is_AsyncReadStream(t),
     is_AsyncWriteStream |-> is_AsyncWriteStream(t),
     is_SyncReadStream |-> is_SyncReadStream(t),
     is_SyncWriteStream |-> is_SyncWriteStream(t),
     is_Stream |-> is_Stream(t),
     is_Streambuf |-> is_Streambuf(t),
     is_Handler |-> is_Handler(t)]

Checks == DOMAIN Instantiate(Empty)

----------------------------------------------------------------------------
\* The candidate types a translation unit declares, and the changes a
\* declaration can undergo; every check is instantiated on each.

Models == {IntType, ConstBufferSequence, MutableBufferSequence,
           StreamHandler, StreamModel, StreambufModel}

Init ==
    /\ T \in Models
    /\ extra = {}
    /\ value = Instantiate(T)
    /\ edits = 0

\* Remove a nested type or an operation (for the copy constructor and the
\* destructor: delete it).
RemoveMember(m) ==
    /\ edits < MaxEdits
    /\ T[m] # "none"
    /\ T' = [T EXCEPT ![m] = "none"]
    /\ value' = Instantiate(T')
    /\ edits' = edits + 1
    /\ UNCHANGED extra

\* Declare a member, or change the type of one.
DeclareMember(m, k) ==
    /\ edits < MaxEdits
    /\ T[m] # k
    /\ T' = [T EXCEPT ![m] = k]
    /\ value' = Instantiate(T')
    /\ edits' = edits + 1
    /\ UNCHANGED extra

\* Declare a member under a name no check probes.
AddUnrelated(u) ==
    /\ edits < MaxEdits
    /\ u \notin extra
    /\ extra' = extra \cup {u}
    /\ value' = Instantiate(T)
    /\ edits' = edits + 1
    /\ UNCHANGED T

\* Pass the type as T& or T&&.
AddReference(r) ==
    /\ edits < MaxEdits
    /\ T.ref = "none"
    /\ T' = [T EXCEPT !.ref = r]
    /\ value' = Instantiate(T')
    /\ edits' = edits + 1
    /\ UNCHANGED extra

Next ==
    \/ \E m \in Members : RemoveMember(m)
    \/ \E m \in Members : \E k \in Kinds(m) : DeclareMember(m, k)
    \/ \E u \in Unrelated : AddUnrelated(u)
    \/ \E r \in RefKinds \ {"none"} : AddReference(r)

Spec == Init /\ [][Next]_vars

TypeOK ==
    /\ T \in [Members \cup {"ref"} ->
                 {"none"} \cup UNION {Kinds(m) : m \in Members} \cup RefKinds]
    /\ \A m \in Members : T[m] \in Kinds(m) \cup {"none"}
    /\ T.ref \in RefKinds
    /\ extra \subseteq Unrelated
    /\ value \in [Checks -> {"true", "false", "error"}]
    /\ value = Instantiate(T)
    /\ edits \in 0..MaxEdits

----------------------------------------------------------------------------
\* Properties.

ForwardOrStronger == {"forward", "bidirectional", "random_access"}

StreamChecks == {"is_AsyncReadStream", "is_AsyncWriteStream",
                 "is_SyncReadStream", "is_SyncWriteStream"}

\* The members each check requires.
Required(c) ==
    CASE c \in {"is_ConstBufferSequence", "is_MutableBufferSequence"} ->
            {"copy_ctor", "dtor", "value_type", "const_iterator",
             "begin", "end"}
      [] c = "has_get_io_service" -> {"get_io_service"}
      [] c = "is_AsyncReadStream" -> {"get_io_service", "async_read_some"}
      [] c = "is_AsyncWriteStream" -> {"get_io_service", "async_write_some"}
      [] c = "is_SyncReadStream" -> {"read_some1", "read_some2"}
      [] c = "is_SyncWriteStream" -> {"write_some1", "write_some2"}
      [] c = "is_Stream" ->
            {"get_io_service", "async_read_some", "async_write_some",
             "read_some1", "read_some2", "write_some1", "write_some2"}
      [] c = "is_Streambuf" ->
            {"prepare", "data", "commit", "consume", "size"}
      [] OTHER -> {}

\* C1: is_Streambuf<T> is true only if size() returns exactly std::size_t;
\* a qualifying type whose size() is changed to return a signed type is
\* rejected.
C1_SizeExact ==
    value.is_Streambuf = "true" => T.size = "size_t"

\* C2: is_Streambuf<T> is true only if the result of prepare(n) is a mutable
\* buffer sequence and the result of data() is a const buffer sequence.
C2_PrepareDataAreSequences ==
    value.is_Streambuf = "true" =>
        /\ is_MutableBufferSequence(TypeNamed(T.prepare)) = "true"
        /\ is_ConstBufferSequence(TypeNamed(T.data)) = "true"

C3_Expected(convertible) ==
    /\ T.ref = "none"
    /\ T.copy_ctor = "declared"
    /\ T.dtor = "declared"
    /\ T.value_type \in convertible
    /\ T.const_iterator \in ForwardOrStronger
    /\ T.begin \in {"const_iterator", "iterator"}
    /\ T.end \in {"const_iterator", "iterator"}

\* C3: is_BufferSequence<T, B> is true exactly when T is copy-constructible
\* and destructible, T::value_type converts to B, T::const_iterator is a
\* forward iterator or stronger, and begin() and end() convert to
\* T::const_iterator; it is false otherwise, and the two model types
\* qualify for their own element kind.
C3_BufferSequenceIff ==
    /\ value.is_ConstBufferSequence =
           BoolValue(C3_Expected({"const_buffer", "mutable_buffer"}))
    /\ value.is_MutableBufferSequence =
           BoolValue(C3_Expected({"mutable_buffer"}))
    /\ T = ConstBufferSequence => value.is_ConstBufferSequence = "true"
    /\ T = MutableBufferSequence => value.is_MutableBufferSequence = "true"

C3_Witness ==
    /\ edits = 1
    /\ T = [ConstBufferSequence EXCEPT !.begin = "none"]
    /\ value.is_ConstBufferSequence = "false"

\* C4: is_Stream<T> is true exactly when the four stream checks are all
\* true, and a change to a type with all four true that makes one of them
\* false makes is_Stream false.
C4_StreamConjunction ==
    /\ [](value.is_Stream = "true"
              <=> \A c \in StreamChecks : value[c] = "true")
    /\ [][(/\ \A c \in StreamChecks : value[c] = "true"
           /\ \E c \in StreamChecks : value'[c] = "false")
              => value'.is_Stream = "false"]_vars

C4_Witness ==
    /\ edits = 1
    /\ T = [StreamModel EXCEPT !.write_some2 = "none"]
    /\ value.is_SyncWriteStream = "false"
    /\ \A c \in StreamChecks \ {"is_SyncWriteStream"} : value[c] = "true"
    /\ value.is_Stream = "false"

\* C5: every check instantiated on int yields false, none a build failure.
C5_ScalarAllFalse ==
    T = IntType => \A c \in Checks : value[c] = "false"

C5_Witness ==
    /\ T = IntType
    /\ \A c \in Checks : value[c] = "false"

\* C6: is_SyncReadStream<T> is true exactly when both read_some overloads
\* exist and return exactly std::size_t, and is false (never a build
\* failure) otherwise; is_SyncWriteStream likewise with write_some.
C6_SyncStreamsIff ==
    /\ value.is_SyncReadStream =
           BoolValue(T.read_some1 = "size_t" /\ T.read_some2 = "size_t")
    /\ value.is_SyncWriteStream =
           BoolValue(T.write_some1 = "size_t" /\ T.write_some2 = "size_t")

C6_Witness ==
    /\ T.read_some1 = "int"
    /\ T.read_some2 = "size_t"
    /\ value.is_SyncReadStream = "false"

\* C7: is_AsyncReadStream<T> is true exactly when has_get_io_service<T> is
\* true and async_read_some(buffers, handler) is well-formed, whatever its
\* result type; is_AsyncWriteStream likewise with async_write_some.
C7_AsyncStreamsIff ==
    /\ value.is_AsyncReadStream = "true"
           <=> (value.has_get_io_service = "true"
                    /\ T.async_read_some # "none")
    /\ value.is_AsyncWriteStream = "true"
           <=> (value.has_get_io_service = "true"
                    /\ T.async_write_some # "none")

\* C8: has_get_io_service<T> is true exactly when get_io_service() is
\* well-formed and its result type is exactly boost::asio::io_service&.
C8_ExactReference ==
    value.has_get_io_service = BoolValue(T.get_io_service = "io_service&")

C8_Witness ==
    /\ T.get_io_service = "derived&"
    /\ value.has_get_io_service = "false"

\* C9: is_Handler<T, S> is true exactly when the decayed T is
\* copy-constructible and a T is invocable with the arguments of S.
C9_HandlerIff ==
    value.is_Handler =
        BoolValue(T.copy_ctor = "declared" /\ T.call # "none")

C9_Witness ==
    /\ T.ref = "&"
    /\ T.copy_ctor = "none"
    /\ T.call = "void"
    /\ value.is_Handler = "false"

\* C10: for a type on which a check is true, removing one member the check
\* requires makes the check false, and a change confined to names the
\* check does not probe leaves it true.
C10_Monotonic ==
    /\ [][\A c \in Checks \ {"is_Handler"} :
            (/\ value[c] = "true"
             /\ \E m \in Required(c) :
                    T[m] # "none" /\ T' = [T EXCEPT ![m] = "none"])
                => value'[c] = "false"]_vars
    /\ [][\A c \in Checks \ {"is_Handler"} :
            (/\ value[c] = "true"
             /\ \A m \in Required(c) \cup {"ref"} : T'[m] = T[m])
                => value'[c] = "true"]_vars

C10_Witness ==
    /\ edits = 2
    /\ extra = {"close"}
    /\ T = [StreambufModel EXCEPT !.commit = "none"]
    /\ value.is_Streambuf = "false"

====
